---- MODULE Spec2Model ----
(***************************************************************************)
(* RetryAfterMiddleware (src/src/lib.rs): a reqwest middleware that keeps  *)
(* one Retry-After deadline per Url in an RwLock<HashMap<Url, SystemTime>> *)
(* and delays the next request to that Url until the deadline.             *)
(*                                                                         *)
(* Time is counted in whole seconds.  Header values are sequences of       *)
(* characters.  Each task runs one `handle` invocation at a time; a step   *)
(* of the model is what one poll of the future does between two await      *)
(* points.                                                                 *)
(***************************************************************************)
EXTENDS Integers, Sequences, FiniteSets, TLC

\* ---------------------------------------------------------------- bounds
\* Number of tasks that call handle concurrently.
NumProcs == 2
\* The clock runs from 1 to MaxTime.
MaxTime == 3

\* ------------------------------------------------------ program constants
\* u64::MAX, the largest value val.parse::<u64>() accepts, scaled to 5 bits.
U64_MAX == 31
\* The largest second a SystemTime holds (a signed 64-bit count on the
\* build's platform), scaled to 4 bits.
SYSTEMTIME_MAX == 15

Procs == 1..NumProcs
NoProc == 0

\* The two destinations of src/src/test.rs.
Urls == {"/", "/normal"}

\* Option<T>: None is the empty sequence, Some(x) the one-element sequence.
None == <<>>
Some(x) == <<x>>

\* ----------------------------------------------------------- header values
DigitChars == {"0", "1", "2", "3", "4", "5", "6", "7", "8", "9"}

DigitVal(c) ==
    CASE c = "0" -> 0 [] c = "1" -> 1 [] c = "2" -> 2 [] c = "3" -> 3
      [] c = "4" -> 4 [] c = "5" -> 5 [] c = "6" -> 6 [] c = "7" -> 7
      [] c = "8" -> 8 [] c = "9" -> 9

\* The Retry-After values the server sends:
\*   "2"        delta-seconds
\*   "29"       delta-seconds that fit u64 but not SystemTime::now() + secs
\*   "D2"       an HTTP-date; "D" stands for a well-formed RFC 2822 date
\*              and the digit for the second it denotes
\*   "x"        neither format
\*   "\xe9"     a byte that is not visible ASCII (HeaderValue::to_str fails)
RetryAfterValues ==
    { <<"2">>, <<"2", "9">>, <<"D", "2">>, <<"x">>, <<"\\xe9">> }

\* What the continuation can yield: Err (a transport failure, identified by
\* its payload) or Ok(response) whose header map has at most one Retry-After.
Outcomes ==
    { [ok |-> FALSE, retry_after |-> None] } \cup
    { [ok |-> TRUE, retry_after |-> h] :
        h \in {None} \cup { Some(v) : v \in RetryAfterValues } }

NoOutcome == [ok |-> FALSE, retry_after |-> Some(<<"unset">>)]

\* HeaderValue::to_str: Ok iff every byte is visible ASCII.
to_str(val) ==
    IF \A i \in 1..Len(val) : val[i] # "\\xe9" THEN Some(val) ELSE None

\* <u64 as FromStr>::from_str: an optional "+", then one or more digits,
\* accumulated with checked arithmetic.
RECURSIVE ParseDigits(_, _)
ParseDigits(s, acc) ==
    IF s = <<>> THEN Some(acc)
    ELSE IF Head(s) \notin DigitChars THEN None
    ELSE LET n == acc * 10 + DigitVal(Head(s))
         IN  IF n > U64_MAX THEN None ELSE ParseDigits(Tail(s), n)

parse_u64(val) ==
    LET digits == IF val # <<>> /\ Head(val) = "+" THEN Tail(val) ELSE val
    IN  IF digits = <<>> THEN None ELSE ParseDigits(digits, 0)

\* OffsetDateTime::parse(val, &Rfc2822) followed by .into(): the instant.
parse_rfc2822(val) ==
    IF Len(val) = 2 /\ val[1] = "D" /\ val[2] \in DigitChars
    THEN Some(DigitVal(val[2]))
    ELSE None

\* SystemTime + Duration panics when the sum is not representable.
AddOverflows(t, secs) == t + secs > SYSTEMTIME_MAX

\* The parser without `SystemTime::now() +`: the seconds taken as an instant.
parse_retry_value_no_now(val, t) ==
    IF parse_u64(val) # None
    THEN [panic |-> FALSE, value |-> parse_u64(val)]
    ELSE [panic |-> FALSE, value |-> parse_rfc2822(val)]

\* parse_retry_value(val) evaluated when SystemTime::now() = t.
\* panic: the addition aborted; value: the Option<SystemTime> returned.
parse_retry_value(val, t) ==
    IF parse_u64(val) # None
    THEN LET secs == parse_u64(val)[1]
         IN  IF AddOverflows(t, secs)
             THEN [panic |-> TRUE, value |-> None]
             ELSE [panic |-> FALSE, value |-> Some(t + secs)]
    ELSE IF parse_rfc2822(val) # None
    THEN [panic |-> FALSE, value |-> parse_rfc2822(val)]
    ELSE [panic |-> FALSE, value |-> None]

\* duration_since taken as the distance between the two instants.
duration_since_abs(ts, earlier) ==
    Some(IF ts >= earlier THEN ts - earlier ELSE earlier - ts)

\* SystemTime::duration_since: Ok(self - earlier) iff self >= earlier.
duration_since(ts, earlier) ==
    IF ts >= earlier THEN Some(ts - earlier) ELSE None

\* ------------------------------------------------------------ the HashMap
\* A lookup under a key the map never holds (a differently normalised Url).
get_miss(m, k) == None

get(m, k) == IF k \in DOMAIN m THEN Some(m[k]) ELSE None

\* An insert that keeps the entry the key already has.
insert_if_absent(m, k, v) ==
    [x \in DOMAIN m \cup {k} |-> IF x \in DOMAIN m THEN m[x] ELSE v]

insert(m, k, v) == [x \in DOMAIN m \cup {k} |-> IF x = k THEN v ELSE m[x]]

\* clear() in place of remove(&url): every entry goes.
remove_all(m, k) == << >>

\* A remove that leaves the map as it is.
remove_noop(m, k) == m

remove(m, k) == [x \in DOMAIN m \ {k} |-> m[x]]

\* ------------------------------------------------------------------ state
VARIABLES
    now,          \* the clock (SystemTime::now)
    retry_after,  \* the HashMap<Url, SystemTime> inside the RwLock
    readers,      \* tasks that hold an RwLockReadGuard
    writer,       \* the task that holds the RwLockWriteGuard, or NoProc
    waiters,      \* the RwLock's FIFO queue of <<task, "r" | "w">>
    pc,           \* where each task is inside handle
    url,          \* handle's local `url`
    timestamp,    \* handle's local `timestamp`: from get, later from the parser
    res,          \* handle's local `res`
    ret,          \* what handle returned to its caller
    calls,        \* how often this invocation ran the continuation
    hist,         \* history of each invocation (not program state)
    last          \* history of the watched key (not program state)

vars == <<now, retry_after, readers, writer, waiters, pc, url, timestamp,
          res, ret, calls, hist, last>>

\* History of the key "/", kept when `on`: the Retry-After header of the
\* response processed last for it if that response stored a deadline, and
\* whether the response processed before that one carried the same header.
Watched == "/"

NoLast == [on |-> TRUE, header |-> None, repeated |-> FALSE]

LastOff == [on |-> FALSE, header |-> None, repeated |-> FALSE]

\* History of one invocation: whether it slept before the continuation it
\* is now waiting for.
NoHist == [slept |-> FALSE]

\* RetryAfterMiddleware::new(): an empty map behind a free lock; no task
\* is inside handle.
New ==
    /\ now = 1
    /\ retry_after = << >>
    /\ readers = {}
    /\ writer = NoProc
    /\ waiters = << >>
    /\ pc = [p \in Procs |-> "idle"]
    /\ url = [p \in Procs |-> "/"]
    /\ timestamp = [p \in Procs |-> None]
    /\ res = [p \in Procs |-> NoOutcome]
    /\ ret = [p \in Procs |-> NoOutcome]
    /\ calls = [p \in Procs |-> 0]
    /\ hist = [p \in Procs |-> NoHist]

Init == New /\ last = LastOff

\* ------------------------------------------------- tokio::sync::RwLock
\* The lock is a fair semaphore: a request that finds the queue non-empty,
\* or the lock held incompatibly, queues; a release hands the lock to the
\* head of the queue, and to the readers that follow a reader.
RECURSIVE Grant(_, _, _)
Grant(rs, w, q) ==
    IF q = << >> \/ w # NoProc THEN [readers |-> rs, writer |-> w, waiters |-> q]
    ELSE IF Head(q)[2] = "r" THEN Grant(rs \cup {Head(q)[1]}, w, Tail(q))
    ELSE IF rs = {} THEN [readers |-> rs, writer |-> Head(q)[1], waiters |-> Tail(q)]
    ELSE [readers |-> rs, writer |-> w, waiters |-> q]

SetLock(g) ==
    /\ readers' = g.readers
    /\ writer' = g.writer
    /\ waiters' = g.waiters

\* read() is ready at its first poll.
CanRead == writer = NoProc /\ waiters = << >>

\* write() is ready at its first poll.
CanWrite == writer = NoProc /\ readers = {} /\ waiters = << >>

\* read() or write() is pending: the task joins the queue.
Enqueue(p, kind) ==
    /\ waiters' = Append(waiters, <<p, kind>>)
    /\ UNCHANGED <<readers, writer>>

Queued(p) == \E i \in 1..Len(waiters) : waiters[i][1] = p

\* ---------------------------------------------------------------- handle
\* Every return has reached its caller.  Handing a result to the caller
\* touches nothing but the task's own locals, so it is taken as the very
\* next step after the return.
Delivered == \A q \in Procs : pc[q] \notin {"done", "panicked"}

\* Idle tasks are alike: a new invocation runs on the first idle one.
FirstIdle(p) == pc[p] = "idle" /\ \A q \in Procs : q < p => pc[q] # "idle"

\* tokio::time::sleep(duration), with duration = deadline - now: whether
\* it is over at time t.  It never ends early.
SleepOver_early(deadline, t) == TRUE

SleepOver(deadline, t) == t >= deadline

\* next.run(req, extensions): the continuation is invoked.
RunNext(p) ==
    /\ calls' = [calls EXCEPT ![p] = calls[p] + 1]

\* With the read guard held (rs: the readers, p among them): get(&url);
\* if the deadline is not behind the clock, sleep with the guard held;
\* otherwise drop the guard and run the continuation.
PreRequest(p, u, rs) ==
    LET found == get(retry_after, u)
    IN  IF found # None /\ duration_since(found[1], now) # None
        THEN /\ pc' = [pc EXCEPT ![p] = "sleep"]
             /\ timestamp' = [timestamp EXCEPT ![p] = found]
             /\ hist' = [hist EXCEPT ![p].slept = TRUE]
             /\ readers' = rs
             /\ UNCHANGED <<writer, waiters, calls>>
        ELSE /\ pc' = [pc EXCEPT ![p] = "next"]
             /\ SetLock(Grant(rs \ {p}, writer, waiters))
             /\ RunNext(p)
             /\ UNCHANGED <<timestamp, hist>>

\* A pre-request step that evicts the entry it finds behind the clock.
Handle_evicting(p, u) ==
    /\ Delivered
    /\ FirstIdle(p)
    /\ url' = [url EXCEPT ![p] = u]
    /\ IF CanRead
       THEN /\ PreRequest(p, u, readers \cup {p})
            /\ retry_after' =
                 IF get(retry_after, u) # None
                    /\ duration_since(get(retry_after, u)[1], now) = None
                 THEN remove(retry_after, u)
                 ELSE retry_after
       ELSE /\ pc' = [pc EXCEPT ![p] = "read"]
            /\ Enqueue(p, "r")
            /\ UNCHANGED <<timestamp, calls, hist, retry_after>>
    /\ UNCHANGED <<now, res, ret, last>>

\* handle is called for `u`: clone the url and ask for the read lock; go on
\* if it is free, queue if not.
Handle(p, u) ==
    /\ Delivered
    /\ FirstIdle(p)
    /\ url' = [url EXCEPT ![p] = u]
    /\ IF CanRead
       THEN PreRequest(p, u, readers \cup {p})
       ELSE /\ pc' = [pc EXCEPT ![p] = "read"]
            /\ Enqueue(p, "r")
            /\ UNCHANGED <<timestamp, calls, hist>>
    /\ UNCHANGED <<now, retry_after, res, ret, last>>

\* The queued read() was granted.
Lookup(p) ==
    /\ Delivered
    /\ pc[p] = "read"
    /\ p \in readers
    /\ PreRequest(p, url[p], readers)
    /\ UNCHANGED <<now, retry_after, url, res, ret, last>>

\* The sleep is over: the read guard, held across it, is dropped and the
\* continuation runs.
SleepDone(p) ==
    /\ Delivered
    /\ pc[p] = "sleep"
    /\ SleepOver(timestamp[p][1], now)
    /\ pc' = [pc EXCEPT ![p] = "next"]
    /\ timestamp' = [timestamp EXCEPT ![p] = None]
    /\ SetLock(Grant(readers \ {p}, writer, waiters))
    /\ RunNext(p)
    /\ UNCHANGED <<now, retry_after, url, res, ret, hist, last>>

\* The entry written under the root of the Url instead of the Url.
WriteEntry_normalised(m, k, hdr, ts) ==
    IF hdr = None THEN remove(m, "/") ELSE insert(m, "/", ts[1])

\* With the write guard held: remove the entry when the response has no
\* Retry-After header, insert the parsed deadline otherwise.
WriteEntry(m, k, hdr, ts) ==
    IF hdr = None THEN remove(m, k) ELSE insert(m, k, ts[1])

\* Which Retry-After header the post-response step reads from the outcome.
HeaderOf(r) == IF r.ok THEN r.retry_after ELSE None

\* The value the post-response step parses: Some(parser's answer), or None
\* when there is no response, no header or no text.
Parsed(r, t) ==
    IF HeaderOf(r) # None /\ to_str(HeaderOf(r)[1]) # None
    THEN Some(parse_retry_value(to_str(HeaderOf(r)[1])[1], t))
    ELSE None

\* The post-response step inserts a deadline: a header that parsed.
Stores(r, t) == Parsed(r, t) # None /\ Parsed(r, t)[1].value # None

\* handle returns the outcome without its Retry-After header.
Return_stripped(p, r) ==
    /\ pc' = [pc EXCEPT ![p] = "done"]
    /\ ret' = [ret EXCEPT ![p] = [ok |-> r.ok, retry_after |-> None]]
    /\ last' = IF last.on /\ r.ok /\ url[p] = Watched
               THEN [on |-> TRUE,
                     header |-> IF Stores(r, now) THEN r.retry_after ELSE None,
                     repeated |-> Stores(r, now) /\ last.header = r.retry_after]
               ELSE last

\* handle returns r.
Return(p, r) ==
    /\ pc' = [pc EXCEPT ![p] = "done"]
    /\ ret' = [ret EXCEPT ![p] = r]
    /\ last' = IF last.on /\ r.ok /\ url[p] = Watched
               THEN [on |-> TRUE,
                     header |-> IF Stores(r, now) THEN r.retry_after ELSE None,
                     repeated |-> Stores(r, now) /\ last.header = r.retry_after]
               ELSE last

\* The post-response step without `if let Ok(res) = &res`.
NeedsWrite_any_outcome(r, t) ==
    \/ r.retry_after = None
    \/ Stores(r, t)

\* The post-response step asks for the write lock: Ok(response) with no
\* header, or with a header that parsed.
NeedsWrite(r, t) ==
    /\ r.ok
    /\ \/ r.retry_after = None
       \/ Stores(r, t)

\* The continuation yields r.  Err, a header that is not text and a value
\* that does not parse return at once; otherwise the entry is written if the
\* write lock is free, and the task queues for it if not.
Yield(p, r) ==
    /\ Delivered
    /\ pc[p] = "next"
    /\ res' = [res EXCEPT ![p] = r]
    /\ hist' = [hist EXCEPT ![p].slept = FALSE]
    /\ IF Parsed(r, now) # None /\ Parsed(r, now)[1].panic
       THEN /\ pc' = [pc EXCEPT ![p] = "panicked"]
            /\ UNCHANGED <<retry_after, readers, writer, waiters, timestamp, ret, last>>
       ELSE IF ~NeedsWrite(r, now)
       THEN /\ Return(p, r)
            /\ UNCHANGED <<retry_after, readers, writer, waiters, timestamp>>
       ELSE LET ts == IF r.retry_after = None THEN None
                      ELSE Parsed(r, now)[1].value
            IN  IF CanWrite
                THEN /\ retry_after' = WriteEntry(retry_after, url[p], r.retry_after, ts)
                     /\ Return(p, r)
                     /\ UNCHANGED <<readers, writer, waiters, timestamp>>
                ELSE /\ pc' = [pc EXCEPT ![p] = "write"]
                     /\ timestamp' = [timestamp EXCEPT ![p] = ts]
                     /\ Enqueue(p, "w")
                     /\ UNCHANGED <<retry_after, ret, last>>
    /\ UNCHANGED <<now, url, calls>>

\* The queued write() was granted: write the entry, drop the guard, return.
Write(p) ==
    /\ Delivered
    /\ pc[p] = "write"
    /\ writer = p
    /\ retry_after' = WriteEntry(retry_after, url[p], res[p].retry_after, timestamp[p])
    /\ timestamp' = [timestamp EXCEPT ![p] = None]
    /\ SetLock(Grant(readers, NoProc, waiters))
    /\ Return(p, res[p])
    /\ UNCHANGED <<now, url, res, calls, hist>>

\* The caller has the result (or the task died); the task is free for the
\* next invocation.
Finish(p) ==
    /\ pc[p] \in {"done", "panicked"}
    /\ pc' = [pc EXCEPT ![p] = "idle"]
    /\ url' = [url EXCEPT ![p] = "/"]
    /\ res' = [res EXCEPT ![p] = NoOutcome]
    /\ ret' = [ret EXCEPT ![p] = NoOutcome]
    /\ calls' = [calls EXCEPT ![p] = 0]
    /\ UNCHANGED <<now, retry_after, readers, writer, waiters, timestamp, hist,
                   last>>

\* A second passes.
Tick ==
    /\ Delivered
    /\ now < MaxTime
    /\ now' = now + 1
    /\ UNCHANGED <<retry_after, readers, writer, waiters, pc, url, timestamp,
                   res, ret, calls, hist, last>>

Next ==
    \/ \E p \in Procs, u \in Urls : Handle(p, u)
    \/ \E p \in Procs : Lookup(p)
    \/ \E p \in Procs : SleepDone(p)
    \/ \E p \in Procs, r \in Outcomes : Yield(p, r)
    \/ \E p \in Procs : Write(p)
    \/ \E p \in Procs : Finish(p)
    \/ Tick

Spec == Init /\ [][Next]_vars

\* The same program with the history of the watched key kept.
HistInit == New /\ last = NoLast

HistSpec == HistInit /\ [][Next]_vars

\* ------------------------------------------- handle on worker threads
\* On a multi-threaded runtime the tasks run in parallel, and what a task
\* does outside the lock is no longer one step with what it does under it:
\* the read guard is dropped where the `if let` ends, the continuation is
\* called in the statement after it, and another task can take the lock in
\* between.  "drop" is the place between the two.
PreRequestPar(p, u, rs) ==
    LET found == get(retry_after, u)
    IN  IF found # None /\ duration_since(found[1], now) # None
        THEN /\ pc' = [pc EXCEPT ![p] = "sleep"]
             /\ timestamp' = [timestamp EXCEPT ![p] = found]
             /\ hist' = [hist EXCEPT ![p].slept = TRUE]
             /\ readers' = rs
             /\ UNCHANGED <<writer, waiters>>
        ELSE /\ pc' = [pc EXCEPT ![p] = "drop"]
             /\ SetLock(Grant(rs \ {p}, writer, waiters))
             /\ UNCHANGED <<timestamp, hist>>

HandlePar(p, u) ==
    /\ Delivered
    /\ FirstIdle(p)
    /\ url' = [url EXCEPT ![p] = u]
    /\ IF CanRead
       THEN PreRequestPar(p, u, readers \cup {p})
       ELSE /\ pc' = [pc EXCEPT ![p] = "read"]
            /\ Enqueue(p, "r")
            /\ UNCHANGED <<timestamp, hist>>
    /\ UNCHANGED <<now, retry_after, res, ret, calls, last>>

LookupPar(p) ==
    /\ Delivered
    /\ pc[p] = "read"
    /\ p \in readers
    /\ PreRequestPar(p, url[p], readers)
    /\ UNCHANGED <<now, retry_after, url, res, ret, calls, last>>

\* The sleep is over: the read guard, held across it, is dropped.
SleepDonePar(p) ==
    /\ Delivered
    /\ pc[p] = "sleep"
    /\ SleepOver(timestamp[p][1], now)
    /\ pc' = [pc EXCEPT ![p] = "drop"]
    /\ timestamp' = [timestamp EXCEPT ![p] = None]
    /\ SetLock(Grant(readers \ {p}, writer, waiters))
    /\ UNCHANGED <<now, retry_after, url, res, ret, calls, hist, last>>

\* next.run(req, extensions) is called, with no guard held.
Call(p) ==
    /\ Delivered
    /\ pc[p] = "drop"
    /\ pc' = [pc EXCEPT ![p] = "next"]
    /\ RunNext(p)
    /\ UNCHANGED <<now, retry_after, readers, writer, waiters, url, timestamp,
                   res, ret, hist, last>>

ParNext ==
    \/ \E p \in Procs, u \in Urls : HandlePar(p, u)
    \/ \E p \in Procs : LookupPar(p)
    \/ \E p \in Procs : SleepDonePar(p)
    \/ \E p \in Procs : Call(p)
    \/ \E p \in Procs, r \in Outcomes : Yield(p, r)
    \/ \E p \in Procs : Write(p)
    \/ \E p \in Procs : Finish(p)
    \/ Tick

ParSpec == Init /\ [][ParNext]_vars

\* ------------------------------------------------------------------ steps
\* What a step does to task p, read off the two states of the step.
\* The continuation is invoked.
Invoked(p) == calls'[p] = calls[p] + 1

\* The lookup of the pre-request step happens.
LookedUp(p) == pc[p] \in {"idle", "read"} /\ pc'[p] \in {"sleep", "next"}

\* The continuation yields.
Yielded(p) == pc[p] = "next" /\ pc'[p] # "next"

\* The post-response step is over and handle returns.
Returned(p) == pc[p] \in {"next", "write"} /\ pc'[p] = "done"

OkWith(v) == [ok |-> TRUE, retry_after |-> Some(v)]
OkNoHeader == [ok |-> TRUE, retry_after |-> None]
Failure == [ok |-> FALSE, retry_after |-> None]

\* ----------------------------------------------------------------- claims
\* C1: an invocation whose lookup finds a deadline D for its key that is
\* not behind the clock sleeps on exactly D and does not invoke the
\* continuation at the lookup; while it sleeps the entry stays D; and it
\* invokes the continuation only when the clock has reached D.
C1_WaitsForStoredDeadline ==
    [][\A p \in Procs :
        /\ ( /\ LookedUp(p)
             /\ url'[p] \in DOMAIN retry_after
             /\ retry_after[url'[p]] >= now )
           => ( /\ pc'[p] = "sleep"
                /\ ~Invoked(p)
                /\ timestamp'[p] = Some(retry_after[url'[p]]) )
        /\ pc[p] = "sleep" => get(retry_after, url[p]) = timestamp[p]
        /\ (pc[p] = "sleep" /\ Invoked(p)) => now >= timestamp[p][1]
    ]_vars

\* C1 witness: two requests are in flight after sleeping, one on a deadline
\* that came from an HTTP-date (second 2), one on a deadline that came from
\* delta-seconds (a response time + 2).
C1_Witness ==
    \E p, q \in Procs :
        /\ pc[p] = "next" /\ hist[p].slept
        /\ pc[q] = "next" /\ hist[q].slept
        /\ get(retry_after, url[p]) = Some(2)
        /\ url[q] \in DOMAIN retry_after /\ retry_after[url[q]] > 2

\* C2: when a response carrying "2" is observed at time t the deadline
\* computed is t + 2, and when it carries the date of second 2 the deadline
\* is 2; the post-response step leaves exactly the computed deadline under
\* the key, whatever was there.
C2_StoresComputedDeadline ==
    [][\A p \in Procs :
        /\ (Yielded(p) /\ res'[p] = OkWith(<<"2">>))
           => IF pc'[p] = "done"
              THEN get(retry_after', url[p]) = Some(now + 2)
              ELSE pc'[p] = "write" /\ timestamp'[p] = Some(now + 2)
        /\ (Yielded(p) /\ res'[p] = OkWith(<<"D", "2">>))
           => IF pc'[p] = "done"
              THEN get(retry_after', url[p]) = Some(2)
              ELSE pc'[p] = "write" /\ timestamp'[p] = Some(2)
        /\ (pc[p] = "write" /\ Returned(p) /\ res[p].retry_after # None)
           => get(retry_after', url[p]) = timestamp[p]
    ]_vars

\* C2 witness: a response with "2" has just been processed for a key on
\* whose earlier deadline another request slept: the entry is now the new
\* deadline.
C2_Witness ==
    \E p, q \in Procs :
        /\ pc[p] = "done" /\ res[p] = OkWith(<<"2">>)
        /\ get(retry_after, url[p]) = Some(now + 2)
        /\ pc[q] = "next" /\ hist[q].slept /\ url[q] = url[p]

\* C3: no request is kept waiting for the lock by nothing but a request to
\* another key that sleeps on that key's deadline, when its own key has no
\* stored deadline.
C3_OtherKeyNeverWaits ==
    \A p, q \in Procs :
        ~ ( /\ Queued(p)
            /\ url[p] \notin DOMAIN retry_after
            /\ pc[q] = "sleep"
            /\ url[q] # url[p]
            /\ timestamp[q][1] > now
            /\ readers = {q}
            /\ writer = NoProc )

\* C4: when handle returns a response that has no Retry-After header, its
\* key has no entry, whatever it had before.
C4_AbsentHeaderClears ==
    [][\A p \in Procs :
        (Returned(p) /\ res'[p] = OkNoHeader)
        => url[p] \notin DOMAIN retry_after'
    ]_vars

\* C4 witness: a response without the header has just been processed for a
\* key on whose deadline another request slept, and the entry is gone.
C4_Witness ==
    \E p, q \in Procs :
        /\ pc[p] = "done" /\ res[p] = OkNoHeader
        /\ url[p] \notin DOMAIN retry_after
        /\ pc[q] = "next" /\ hist[q].slept /\ url[q] = url[p]

\* C5: when handle returns a response whose Retry-After header does not
\* parse, or is not text, its key has no entry.
C5_UnparseableHeaderClears ==
    [][\A p \in Procs :
        (Returned(p) /\ res'[p] \in {OkWith(<<"x">>), OkWith(<<"\\xe9">>)})
        => url[p] \notin DOMAIN retry_after'
    ]_vars

\* C6: when the continuation yields a failure, handle returns that failure
\* in the same step and the map is what it was.
C6_FailureLeavesCache ==
    [][\A p \in Procs :
        (Yielded(p) /\ ~res'[p].ok)
        => ( /\ retry_after' = retry_after
             /\ pc'[p] = "done"
             /\ ret'[p] = res'[p]
             /\ ret'[p] = Failure )
    ]_vars

\* C6 witness: a failure was returned and the key still has its deadline,
\* which lies ahead.
C6_Witness ==
    \E p \in Procs :
        /\ pc[p] = "done" /\ ret[p] = Failure
        /\ url[p] \in DOMAIN retry_after /\ retry_after[url[p]] > now

\* C7: the continuation is invoked at most once, from the pre-request step
\* with the read guard dropped and any sleep over; an invocation past that
\* step has invoked it exactly once; the map changes only in the return step
\* of an invocation that has invoked it; and what handle returns is what the
\* continuation yielded.
C7_NextOnceAndOutcomeKept ==
    [][\A p \in Procs :
        /\ Invoked(p)
           => ( /\ calls[p] = 0
                /\ pc[p] \in {"idle", "read", "sleep"} /\ pc'[p] = "next"
                /\ p \notin readers'
                /\ pc[p] = "sleep" => now >= timestamp[p][1] )
        /\ calls'[p] = IF pc'[p] \in {"idle", "read", "sleep"} THEN 0 ELSE 1
        /\ retry_after' # retry_after
           => \E q \in Procs : Returned(q) /\ calls[q] = 1
        /\ Returned(p) => (ret'[p] = res'[p] /\ res'[p] \in Outcomes)
        /\ (pc[p] = "write" /\ Returned(p)) => res'[p] = res[p]
    ]_vars

\* C7 witness: handle has returned a response with its header after one
\* call of the continuation and a write of the map.
C7_Witness ==
    \E p \in Procs :
        /\ pc[p] = "done" /\ calls[p] = 1
        /\ ret[p] = OkWith(<<"D", "2">>)
        /\ get(retry_after, url[p]) = Some(2)

C9_SameResponseTwice ==
    [][\A p \in Procs :
        ( /\ Returned(p) /\ url[p] = Watched
          /\ res'[p] \in {OkWith(<<"2">>), OkWith(<<"D", "2">>)}
          /\ last.header = res'[p].retry_after )
        => /\ Watched \in DOMAIN retry_after
           /\ DOMAIN retry_after' = DOMAIN retry_after
           /\ \A k \in Urls \ {Watched} :
                get(retry_after', k) = get(retry_after, k)
           /\ res'[p] = OkWith(<<"D", "2">>)
              => retry_after' = retry_after /\ retry_after'[Watched] = 2
           /\ res'[p] = OkWith(<<"2">>)
              => get(retry_after', Watched)
                   = IF pc[p] = "next" THEN Some(now + 2) ELSE timestamp[p]
    ]_vars

\* C9 witness: the second of two responses in a row with "2" for the watched
\* key has just been processed, after the clock has moved, and the entry is
\* the deadline counted from now.
C9_Witness ==
    \E p \in Procs :
        /\ pc[p] = "done" /\ url[p] = Watched /\ res[p] = OkWith(<<"2">>)
        /\ last.repeated
        /\ now > 1
        /\ get(retry_after, Watched) = Some(now + 2)

\* C10: the map starts empty, and a key gets an entry only in the return
\* step of a response for that very key whose Retry-After value parses.
C10_EntriesComeFromResponses ==
    /\ retry_after = << >>
    /\ [][\A k \in Urls :
            (k \in DOMAIN retry_after' /\ k \notin DOMAIN retry_after)
            => \E p \in Procs :
                 /\ Returned(p) /\ url[p] = k
                 /\ res'[p] \in {OkWith(<<"2">>), OkWith(<<"D", "2">>)}
       ]_vars

\* C10 witness: one key has an entry; the other, for which a response has
\* just been processed, has none.
C10_Witness ==
    \E p \in Procs :
        /\ pc[p] = "done" /\ res[p].ok
        /\ url[p] \notin DOMAIN retry_after
        /\ retry_after # << >>

\* C11: an invocation suspended in its pre-request wait, with its deadline
\* still ahead, holds neither the read nor the write side of the lock.
C11_NoLockAcrossSuspend ==
    \A p \in Procs :
        (pc[p] = "sleep" /\ timestamp[p][1] > now)
        => (p \notin readers /\ writer # p)

C13_DeltaSecondsFirstThenDate ==
    [][\A p \in Procs :
        ( /\ Yielded(p) /\ res'[p].ok /\ res'[p].retry_after # None
          /\ to_str(res'[p].retry_after[1]) # None )
        => LET v == to_str(res'[p].retry_after[1])[1]
               expected ==
                   CASE v = <<"2">> -> Some(now + 2)
                     [] v = <<"2", "9">> -> Some(now + 29)
                     [] v = <<"D", "2">> -> Some(2)
                     [] OTHER -> None
           IN  IF expected # None
               THEN \/ pc'[p] = "done" /\ get(retry_after', url[p]) = expected
                    \/ pc'[p] = "write" /\ timestamp'[p] = expected
               ELSE pc'[p] = "done" /\ retry_after' = retry_after
    ]_vars

\* C14: when the continuation yields a response whose Retry-After value
\* parses as an unsigned 64-bit integer, computing the deadline does not
\* abort the invocation, and what handle then returns is that response.
C14_DeltaSecondsNeverAbort ==
    [][\A p \in Procs :
        ( /\ Yielded(p) /\ res'[p].ok /\ res'[p].retry_after # None
          /\ to_str(res'[p].retry_after[1]) # None
          /\ parse_u64(to_str(res'[p].retry_after[1])[1]) # None )
        => ( /\ pc'[p] \in {"done", "write"}
             /\ pc'[p] = "done" => ret'[p] = res'[p] )
    ]_vars

\* C15: the steps of an invocation's post-response step (the continuation
\* yields; the queued write is granted) leave the entry of every key other
\* than the invocation's own as it was, present with its deadline or absent.
C15_OtherKeysUntouched ==
    [][\A p \in Procs :
        (pc[p] \in {"next", "write"} /\ pc'[p] # pc[p])
        => \A k \in Urls \ {url[p]} :
             get(retry_after', k) = get(retry_after, k)
    ]_vars

\* C15 witness: a response without the header has just been processed for
\* one key, whose entry is gone, while a request to the other key, which
\* slept on that key's deadline, is in flight and that deadline is still
\* stored.
C15_Witness ==
    \E p, q \in Procs :
        /\ pc[p] = "done" /\ res[p] = OkNoHeader
        /\ url[p] \notin DOMAIN retry_after
        /\ pc[q] = "next" /\ hist[q].slept
        /\ url[q] # url[p] /\ url[q] \in DOMAIN retry_after

\* C16: every invocation reaches its return: a task that is inside handle
\* leaves it only from the return.
C16_InvocationEndsByReturning ==
    [][\A p \in Procs :
        (pc[p] # "idle" /\ pc'[p] = "idle") => pc[p] = "done"
    ]_vars

\* C17 (under ParSpec): whenever an invocation calls the continuation, the
\* map holds no deadline for its key that lies ahead of the clock.
C17_NoFutureDeadlineAtCall ==
    [][\A p \in Procs :
        Invoked(p)
        => ~ ( /\ url'[p] \in DOMAIN retry_after
               /\ retry_after[url'[p]] > now )
    ]_vars

\* C17 as amended (under ParSpec): an invocation calls the continuation only
\* after it has dropped its read guard, and at the step in which it drops
\* the guard (after a lookup that does not sleep, or after the sleep) the
\* map holds no deadline for its key that lies ahead of the clock.
C17_NoFutureDeadlineAtDrop ==
    [][\A p \in Procs :
        /\ Invoked(p) => (pc[p] = "drop" /\ p \notin readers)
        /\ (pc[p] # "drop" /\ pc'[p] = "drop")
           => ( /\ p \notin readers'
                /\ ~ ( /\ url'[p] \in DOMAIN retry_after
                       /\ retry_after[url'[p]] > now ) )
    ]_vars

\* C17 witness: a request has slept on its key's deadline and has called
\* the continuation, while another request to the same key holds the write
\* lock with a deadline to store that lies ahead of the clock.
C17_Witness ==
    \E p, q \in Procs :
        /\ pc[p] = "next" /\ hist[p].slept /\ calls[p] = 1
        /\ pc[q] = "write" /\ writer = q /\ url[q] = url[p]
        /\ timestamp[q] # None /\ timestamp[q][1] > now

====
